---- MODULE Spec2Model ----
(***************************************************************************)
(* Model of nossence (server/service/service.go, server/bot/bot.go):      *)
(*   - the event-to-graph mutations (StoreEvent and the Cypher statements  *)
(*     it issues), the feed query (GetFeed);                               *)
(*   - the subscriber lifecycle (GetOrCreateSubscription,                  *)
(*     TerminateSubscription, RestoreSubscription);                        *)
(*   - BotApplication.Run: the consumer of the mention stream and the       *)
(*     hourly job.                                                         *)
(* The graph store is modelled by the meaning of the Cypher statements the *)
(* code sends to it: MERGE creates what it does not match, a uniqueness    *)
(* constraint makes a creating MERGE fail, a failed transaction function   *)
(* is rolled back.                                                         *)
(***************************************************************************)
EXTENDS Integers, Sequences, FiniteSets, TLC

VARIABLES graph, ret, subscribers, now, crashed, procs,
          stream, published, cr, ticks, batches

\* the state of BotApplication.Run: the mention events published and not yet
\* received, their number so far, the cron scheduler, the hours that have
\* struck and the runs of Worker.Batch
botVars == <<stream, published, cr, ticks, batches>>

vars == <<graph, ret, subscribers, now, crashed, procs, botVars>>

(***************************************************************************)
(* Bounds of the model.                                                    *)
(***************************************************************************)
\* StoreEvent is offered while the graph has fewer Post nodes and
\* relationships (CREATE aside) than this.
MaxGraphSize == 5
\* In the feed specification StoreEvent is offered while the graph has fewer
\* Post nodes than this.
MaxFeedPosts == 4
\* GetFeed is called with limit in 0..MaxLimit.
MaxLimit == 2
\* Unix seconds the clock of the subscriber operations runs through.
MaxTime == 3
\* Mention events are published to the stream while fewer than this have been.
MaxStream == 3
\* The hours that strike while BotApplication.Run runs.
MaxTicks == 2

Ids == {1, 2}
Pubkeys == {"a", "b"}
Contents == {"c"}
\* Contents of the MSatoshi field of the invoices that decode.
MSatoshis == {3000, 1999}

NoErr == "nil"
ConstraintError == "ConstraintValidationFailed"
DecodeError == "DecodeError"

(***************************************************************************)
(* go-nostr events. The tags are kept per key, in order: etags are the    *)
(* values of the "e" tags, ptags those of the "p" tags, bolt11 is the      *)
(* value of the last "bolt11" tag, abstracted to what Decodepay makes of   *)
(* it.                                                                     *)
(***************************************************************************)
\* a bolt11 value Decodepay rejects; it also fills the field of the events
\* whose bolt11 tag no handler reads.
Undecodable == [valid |-> FALSE, msat |-> 0]
Invoice(msat) == [valid |-> TRUE, msat |-> msat]
Invoices == {Undecodable} \cup {Invoice(m) : m \in MSatoshis}

SeqsUpTo(S, n) == UNION {[1..k -> S] : k \in 0..n}

Event(id, kind, pubkey, content, created_at, etags, ptags, bolt11) ==
    [id |-> id, kind |-> kind, pubkey |-> pubkey, content |-> content,
     created_at |-> created_at, etags |-> etags, ptags |-> ptags,
     bolt11 |-> bolt11]

\* The values of the "e" tags of an event: none, one, or two of which the
\* second, which no handler reads, is one fixed id.
ETagSeqs == SeqsUpTo(Ids, 1) \cup {<<i, 1>> : i \in Ids}

\* kind 1 (post) and kind 7 (reaction): only the "e" tags are read.
NoteEvents ==
    {Event(id, k, pk, c, 1, es, <<>>, Undecodable) :
        id \in Ids, k \in {1, 7}, pk \in Pubkeys, c \in Contents,
        es \in ETagSeqs}

\* kind 3 (follow list): only the author and the "p" tags are read.
ContactEvents ==
    {Event(1, 3, pk, "c", 1, <<>>, ps, Undecodable) :
        pk \in Pubkeys, ps \in SeqsUpTo(Pubkeys, 2)}

\* kind 9735 (zap receipt).
ZapEvents ==
    {Event(id, 9735, pk, c, 1, es, <<>>, b) :
        id \in Ids, pk \in Pubkeys, c \in Contents, es \in ETagSeqs,
        b \in Invoices}

\* a kind StoreEvent does not support.
OtherEvents == {Event(1, 4, "a", "c", 1, <<>>, <<>>, Undecodable)}

\* The events of the mutation specification: every combination of the fields
\* over two ids, so that an id is also delivered with other properties.
Events == NoteEvents \cup ContactEvents \cup ZapEvents \cup OtherEvents

\* The events of the feed specification. An event id is the hash of the
\* event's content, so each of these events has an id of its own: two posts
\* (ids 1 and 2, created at 1 and 2), and the replies, reactions and zaps of
\* every author to either of them, created one second after their target.
KindIndex(kind) == CASE kind = 1 -> 0 [] kind = 7 -> 1 [] kind = 9735 -> 2
PubkeyIndex(pubkey) == IF pubkey = "a" THEN 0 ELSE 1
FeedKinds == {1, 7, 9735}
FeedRoots ==
    {Event(1, 1, "a", "c", 1, <<>>, <<>>, Undecodable),
     Event(2, 1, "b", "c", 2, <<>>, <<>>, Undecodable)}
FeedInteraction(kind, pubkey, ref, content, id) ==
    Event(id, kind, pubkey, content, ref + 1, <<ref>>, <<>>,
          IF kind = 9735 THEN Invoice(3000) ELSE Undecodable)
FeedInteractions ==
    {FeedInteraction(k, pk, ref, "c",
                     3 + 4 * KindIndex(k) + 2 * PubkeyIndex(pk) + (ref - 1)) :
        k \in FeedKinds, pk \in Pubkeys, ref \in {1, 2}}
\* a second reply, reaction and zap of author "a" to post 1.
FeedRepeats ==
    {FeedInteraction(k, "a", 1, "d", 15 + KindIndex(k)) : k \in FeedKinds}
FeedEvents == FeedRoots \cup FeedInteractions \cup FeedRepeats

(***************************************************************************)
(* The graph: User nodes (by pubkey), Post nodes (records of their         *)
(* properties) and the relationships, each a set of pairs of node keys;    *)
(* a ZAP relationship also carries its amount.                             *)
(***************************************************************************)
EmptyGraph ==
    [users |-> {}, posts |-> {}, create |-> {}, reply |-> {}, like |-> {},
     zap |-> {}, follow |-> {}]

Ok(g) == [g |-> g, err |-> NoErr]
Fail(g, e) == [g |-> g, err |-> e]

\* merge (u:User {pubkey: $Pubkey})
MergeUser(g, pubkey) == [g EXCEPT !.users = @ \cup {pubkey}]

PostNode(event) ==
    [id |-> event.id, kind |-> event.kind, author |-> event.pubkey,
     content |-> event.content, created_at |-> event.created_at]

\* The MERGE of the Post without the constraint post_id_uniq: a node is created
\* whenever none has all five properties.
MergePostUnconstrained(g, event) ==
    Ok([g EXCEPT !.posts = @ \cup {PostNode(event)}])

\* merge (p:Post {id, kind, author, content, created_at}) under the constraint
\* post_id_uniq: a node with all five properties is matched; otherwise one is
\* created, which fails when another Post has the id.
MergePost(g, event) ==
    LET node == PostNode(event) IN
    IF node \in g.posts THEN Ok(g)
    ELSE IF \E p \in g.posts : p.id = node.id THEN Fail(g, ConstraintError)
    ELSE Ok([g EXCEPT !.posts = @ \cup {node}])

\* match (u:User), (p:Post) where u.pubkey = $Pubkey and p.id = $Id
\* merge (u)-[:CREATE]->(p)
MergeCreateRel(g, pubkey, id) ==
    IF pubkey \in g.users /\ \E p \in g.posts : p.id = id
    THEN [g EXCEPT !.create = @ \cup {<<pubkey, id>>}]
    ELSE g

\* match (p:Post), (r:Post) where p.id = $Id and r.id = $RefId
\* merge (p)-[:REPLY|LIKE]->(r)
BothPosts(g, id, refId) ==
    (\E p \in g.posts : p.id = id) /\ (\E r \in g.posts : r.id = refId)

MergeReply(g, id, refId) ==
    IF BothPosts(g, id, refId)
    THEN [g EXCEPT !.reply = @ \cup {<<id, refId>>}] ELSE g

MergeLike(g, id, refId) ==
    IF BothPosts(g, id, refId)
    THEN [g EXCEPT !.like = @ \cup {<<id, refId>>}] ELSE g

\* ... merge (p)-[:ZAP {amount: $Amount}]->(r)
MergeZap(g, id, refId, amount) ==
    IF BothPosts(g, id, refId)
    THEN [g EXCEPT !.zap = @ \cup {<<id, refId, amount>>}] ELSE g

\* A managed write transaction: the work function's changes are committed when
\* it returns no error and rolled back when it returns one.
ExecuteWrite(g, work) ==
    IF work.err = NoErr THEN work ELSE Fail(g, work.err)

saveUserAndPost(g, event) ==
    LET g1 == MergeUser(g, event.pubkey)
        r2 == MergePost(g1, event)
    IN  IF r2.err # NoErr THEN r2
        ELSE Ok(MergeCreateRel(r2.g, event.pubkey, event.id))

\* StorePost with its two steps in the other order: the REPLY statement first.
StorePostReplyFirst(g, event) ==
    LET g0 == IF Len(event.etags) > 0
              THEN MergeReply(g, event.id, event.etags[1]) ELSE g
    IN  ExecuteWrite(g, saveUserAndPost(g0, event))

\* StorePost with its statements run one by one, outside a transaction.
StorePostAutoCommit(g, event) ==
    LET r == saveUserAndPost(g, event) IN
    IF r.err # NoErr THEN r
    ELSE IF Len(event.etags) > 0
         THEN Ok(MergeReply(r.g, event.id, event.etags[1]))
         ELSE r

StorePost(g, event) ==
    LET r == saveUserAndPost(g, event)
        work == IF r.err # NoErr THEN r
                ELSE IF Len(event.etags) > 0
                     THEN Ok(MergeReply(r.g, event.id, event.etags[1]))
                     ELSE r
    IN  ExecuteWrite(g, work)

StoreLike(g, event) ==
    LET r == saveUserAndPost(g, event)
        work == IF r.err # NoErr THEN r
                ELSE IF Len(event.etags) > 0
                     THEN Ok(MergeLike(r.g, event.id, event.etags[1]))
                     ELSE r
    IN  ExecuteWrite(g, work)

\* match (u:User {pubkey: $Pubkey})-[r:FOLLOW]->() delete r
DeleteFollows(g, pubkey) ==
    [g EXCEPT !.follow = {f \in @ : f[1] # pubkey}]

\* merge (u:User {pubkey: $Pubkey}) merge (p:User {pubkey: $P})
\* merge (u)-[:FOLLOW]->(p)
MergeFollow(g, pubkey, p) ==
    [g EXCEPT !.users = @ \cup {pubkey, p}, !.follow = @ \cup {<<pubkey, p>>}]

RECURSIVE MergeFollows(_, _, _)
MergeFollows(g, pubkey, tags) ==
    IF tags = <<>> THEN g
    ELSE MergeFollows(MergeFollow(g, pubkey, Head(tags)), pubkey, Tail(tags))

\* StoreContact without the statement that deletes the old relationships.
StoreContactNoDelete(g, event) ==
    ExecuteWrite(g, Ok(MergeFollows(g, event.pubkey, event.ptags)))

StoreContact(g, event) ==
    ExecuteWrite(g,
        Ok(MergeFollows(DeleteFollows(g, event.pubkey), event.pubkey,
                        event.ptags)))

\* decodepay.Decodepay, by its result.
Decodepay(bolt11) ==
    IF bolt11.valid THEN [MSatoshi |-> bolt11.msat, err |-> NoErr]
    ELSE [MSatoshi |-> 0, err |-> DecodeError]

\* StoreZap without the exit for a receipt that has no "e" tag: the User and
\* the Post are saved before the tags are looked at.
StoreZapNoExit(g, event) ==
    LET invoice == Decodepay(event.bolt11) IN
    IF invoice.err # NoErr THEN Fail(g, invoice.err)
    ELSE
      LET amount == invoice.MSatoshi \div 1000
          r == saveUserAndPost(g, event)
          work ==
            IF r.err # NoErr THEN r
            ELSE IF Len(event.etags) = 0 THEN r
            ELSE Ok(MergeZap(r.g, event.id, event.etags[1], amount))
      IN  ExecuteWrite(g, work)

\* StoreZap with the amount rounded up to the next unit.
StoreZapRoundUp(g, event) ==
    LET invoice == Decodepay(event.bolt11) IN
    IF invoice.err # NoErr THEN Fail(g, invoice.err)
    ELSE
      LET amount == (invoice.MSatoshi + 999) \div 1000
          work ==
            IF Len(event.etags) = 0 THEN Ok(g)
            ELSE LET r == saveUserAndPost(g, event) IN
                 IF r.err # NoErr THEN r
                 ELSE Ok(MergeZap(r.g, event.id, event.etags[1], amount))
      IN  ExecuteWrite(g, work)

StoreZap(g, event) ==
    LET invoice == Decodepay(event.bolt11) IN
    IF invoice.err # NoErr THEN Fail(g, invoice.err)
    ELSE
      LET amount == invoice.MSatoshi \div 1000
          work ==
            IF Len(event.etags) = 0 THEN Ok(g)
            ELSE LET r == saveUserAndPost(g, event) IN
                 IF r.err # NoErr THEN r
                 ELSE Ok(MergeZap(r.g, event.id, event.etags[1], amount))
      IN  ExecuteWrite(g, work)

StoreEvent(g, event) ==
    CASE event.kind = 1 -> StorePost(g, event)
      [] event.kind = 7 -> StoreLike(g, event)
      [] event.kind = 3 -> StoreContact(g, event)
      [] event.kind = 9735 -> StoreZap(g, event)
      [] OTHER -> Ok(g)

(***************************************************************************)
(* GetFeed: the Cypher query, evaluated as the store evaluates it.        *)
(***************************************************************************)
\* The node an OPTIONAL MATCH binds when nothing matches.
NullId == 0

PostById(g, id) == CHOOSE p \in g.posts : p.id = id

\* r.author, null for the null node.
AuthorOf(g, id) == IF id = NullId THEN {} ELSE {PostById(g, id).author}

\* optional match (r:Post)-[:T]->(p): one binding per matching relationship,
\* or the null binding.
OptionalMatch(rels) == IF rels = {} THEN {<<NullId, NullId, NullId>>} ELSE rels

\* The rows of p after the three optional matches: their product.
FeedRows(g, p) ==
    LET r1 == OptionalMatch({<<e[1], e[2], 0>> : e \in {e \in g.reply : e[2] = p.id}})
        r2 == OptionalMatch({<<e[1], e[2], 0>> : e \in {e \in g.like : e[2] = p.id}})
        r3 == OptionalMatch({e \in g.zap : e[2] = p.id})
    IN  r1 \X r2 \X r3

\* count(r.author), without distinct: the rows whose r is not null.
CountAuthor(g, rows, k) ==
    Cardinality({row \in rows : row[k][1] # NullId})

\* count(distinct r.author) over the rows of one p; nulls are not counted.
CountDistinctAuthor(g, rows, k) ==
    Cardinality(UNION {AuthorOf(g, row[k][1]) : row \in rows})

\* FeedScore with the weights of replies and likes exchanged.
FeedScoreSwapped(g, p) ==
    LET rows == FeedRows(g, p) IN
    CountDistinctAuthor(g, rows, 1) * 10 + CountDistinctAuthor(g, rows, 2) * 15
    + CountDistinctAuthor(g, rows, 3) * 50

FeedScore(g, p) ==
    LET rows == FeedRows(g, p) IN
    CountDistinctAuthor(g, rows, 1) * 15 + CountDistinctAuthor(g, rows, 2) * 10
    + CountDistinctAuthor(g, rows, 3) * 50

FeedEntry(g, p) ==
    [Id |-> p.id, Kind |-> p.kind, Pubkey |-> p.author, Content |-> p.content,
     CreatedAt |-> p.created_at, Score |-> FeedScore(g, p)]

\* order by score limit $Limit, without desc: the least score first.
RECURSIVE OrderByScoreLimit(_, _)
OrderByScoreLimit(entries, limit) ==
    IF limit = 0 \/ entries = {} THEN {<<>>}
    ELSE LET first == {e \in entries : \A o \in entries : e.Score <= o.Score}
         IN  UNION {{<<e>> \o rest :
                        rest \in OrderByScoreLimit(entries \ {e}, limit - 1)} :
                    e \in first}

\* order by score desc limit $Limit: the rows with the greatest score first;
\* the store does not say which of two rows of equal score comes first.
RECURSIVE OrderByScoreDescLimit(_, _)
OrderByScoreDescLimit(entries, limit) ==
    IF limit = 0 \/ entries = {} THEN {<<>>}
    ELSE LET first == {e \in entries : \A o \in entries : e.Score >= o.Score}
         IN  UNION {{<<e>> \o rest :
                        rest \in OrderByScoreDescLimit(entries \ {e}, limit - 1)} :
                    e \in first}

\* GetFeed with the bounds of the window included:
\* p.created_at >= $Start and p.created_at <= $End.
GetFeedInclusive(g, start, end, limit) ==
    LET matched == {p \in g.posts : p.created_at >= start /\ p.created_at <= end}
    IN  OrderByScoreDescLimit({FeedEntry(g, p) : p \in matched}, limit)

\* The results GetFeed may return.
GetFeed(g, start, end, limit) ==
    LET matched == {p \in g.posts : p.created_at > start /\ p.created_at < end}
    IN  OrderByScoreDescLimit({FeedEntry(g, p) : p \in matched}, limit)

(***************************************************************************)
(* Subscribers. A Subscriber node has the properties pubkey,              *)
(* channel_secret, subscribed_at and unsubscribed_at; a property that is   *)
(* null is the empty set, one that is set is the singleton of its value.   *)
(* No constraint is declared on Subscriber (InitDatabase declares them on  *)
(* Post and User only), so nodes carry an identity of their own (nid).     *)
(***************************************************************************)
Secrets == {"k1", "k2"}

Matching(subs, pubkey) == {s \in subs : s.pubkey = pubkey}

SubscriberNode(subs, pubkey, channelSK, subscribedAt) ==
    [nid |-> Cardinality(subs) + 1, pubkey |-> pubkey,
     channel_secret |-> channelSK, subscribed_at |-> subscribedAt,
     unsubscribed_at |-> {}]

\* MERGE (s:Subscriber {pubkey: $Pubkey}) ON CREATE SET s.channel_secret = ...,
\* s.subscribed_at = ..., s.unsubscribed_at = null: the match of the pattern,
\* and the creation that follows when nothing matched.
MergeMatches(subs, pubkey) == Matching(subs, pubkey) # {}

MergeCreates(subs, pubkey, channelSK, subscribedAt) ==
    subs \cup {SubscriberNode(subs, pubkey, channelSK, subscribedAt)}

\* CreateSubscriber with no other transaction running.
CreateSubscriber(subs, pubkey, channelSK, subscribedAt) ==
    IF MergeMatches(subs, pubkey) THEN subs
    ELSE MergeCreates(subs, pubkey, channelSK, subscribedAt)

\* time.Unix(sec, 0). IsZero holds of the instant January 1, year 1 only, which
\* is Unix second -62135596800: of no second a Subscriber is stored with.
TimeUnix(sec) == [sec |-> sec, zero |-> FALSE]
IsZero(t) == t.zero

\* GetSubscriber: nil when the query does not yield exactly one record
\* (result.Single fails); a panic when unsubscribed_at is null, since
\* record.Values[3].(int64) asserts the type of a nil value; else the record.
GetSubscriber(subs, pubkey) ==
    LET found == Matching(subs, pubkey) IN
    IF Cardinality(found) # 1 THEN [kind |-> "nil"]
    ELSE LET s == CHOOSE x \in found : TRUE IN
         IF s.unsubscribed_at = {} THEN [kind |-> "panic"]
         ELSE [kind |-> "subscriber",
               Pubkey |-> s.pubkey,
               ChannelSecret |-> s.channel_secret,
               SubscribedAt |-> TimeUnix(s.subscribed_at),
               UnsubscribedAt |->
                   TimeUnix(CHOOSE t \in s.unsubscribed_at : TRUE)]

\* DeleteSubscriber with MERGE in the place of MATCH: a Subscriber is created
\* when none matches.
DeleteSubscriberMerge(subs, pubkey, unsubscribedAt) ==
    LET merged == IF Matching(subs, pubkey) # {} THEN subs
                  ELSE subs \cup {[nid |-> Cardinality(subs) + 1,
                                    pubkey |-> pubkey, channel_secret |-> "",
                                    subscribed_at |-> unsubscribedAt,
                                    unsubscribed_at |-> {}]}
    IN  {IF s.pubkey = pubkey
         THEN [s EXCEPT !.unsubscribed_at = {unsubscribedAt}]
         ELSE s : s \in merged}

\* MATCH (s:Subscriber {pubkey: $Pubkey}) SET s.unsubscribed_at = $UnsubscribedAt
DeleteSubscriber(subs, pubkey, unsubscribedAt) ==
    {IF s.pubkey = pubkey THEN [s EXCEPT !.unsubscribed_at = {unsubscribedAt}]
     ELSE s : s \in subs}

\* MATCH (s:Subscriber {pubkey: $Pubkey})
\* SET s.unsubscribed_at = null, s.subscribed_at = $SubscribedAt
SetRestored(subs, pubkey, subscribedAt) ==
    {IF s.pubkey = pubkey
     THEN [s EXCEPT !.unsubscribed_at = {}, !.subscribed_at = subscribedAt]
     ELSE s : s \in subs}

\* RestoreSubscriber: the result and the store after it. subscriber is
\* dereferenced without a nil check.
RestoreSubscriber(subs, pubkey, subscribedAt) ==
    LET subscriber == GetSubscriber(subs, pubkey) IN
    IF subscriber.kind # "subscriber"
    THEN [panic |-> TRUE, restored |-> FALSE, err |-> NoErr, subs |-> subs]
    ELSE IF IsZero(subscriber.UnsubscribedAt)
    THEN [panic |-> FALSE, restored |-> FALSE, err |-> NoErr, subs |-> subs]
    ELSE [panic |-> FALSE, restored |-> TRUE, err |-> NoErr,
          subs |-> SetRestored(subs, pubkey, subscribedAt)]

\* Bot.GetOrCreateSubscription with the key nostr.GeneratePrivateKey returns.
GetOrCreateSubscription(subs, subscriberPub, channelSK, t) ==
    LET subscriber == GetSubscriber(subs, subscriberPub) IN
    IF subscriber.kind = "panic"
    THEN [panic |-> TRUE, secret |-> "", isNew |-> FALSE, err |-> NoErr,
          subs |-> subs]
    ELSE IF subscriber.kind = "subscriber"
    THEN [panic |-> FALSE, secret |-> subscriber.ChannelSecret,
          isNew |-> FALSE, err |-> NoErr, subs |-> subs]
    ELSE [panic |-> FALSE, secret |-> channelSK, isNew |-> TRUE,
          err |-> NoErr,
          subs |-> CreateSubscriber(subs, subscriberPub, channelSK, t)]

(***************************************************************************)
(* The subscriber operations with the outcome of their transactions an     *)
(* input: a transaction the store fails (a lost connection, say) changes    *)
(* nothing and hands its error to the code. ok names, per transaction of an *)
(* operation, whether the store carries it out.                             *)
(***************************************************************************)
StoreError == "ServiceUnavailable"

\* GetSubscriber: when ExecuteRead returns an error it is logged and nil is
\* returned, as when no record is found.
GetSubscriberTx(subs, pubkey, readOk) ==
    IF readOk THEN GetSubscriber(subs, pubkey) ELSE [kind |-> "nil"]

\* CreateSubscriber: the error of ExecuteWrite is returned.
CreateSubscriberTx(subs, pubkey, channelSK, subscribedAt, writeOk) ==
    IF writeOk
    THEN [subs |-> CreateSubscriber(subs, pubkey, channelSK, subscribedAt),
          err |-> NoErr]
    ELSE [subs |-> subs, err |-> StoreError]

\* DeleteSubscriber: the error of ExecuteWrite is returned.
DeleteSubscriberTx(subs, pubkey, unsubscribedAt, writeOk) ==
    IF writeOk
    THEN [subs |-> DeleteSubscriber(subs, pubkey, unsubscribedAt),
          err |-> NoErr]
    ELSE [subs |-> subs, err |-> StoreError]

\* RestoreSubscriber: (false, err) when its write transaction fails.
RestoreSubscriberTx(subs, pubkey, subscribedAt, readOk, writeOk) ==
    LET subscriber == GetSubscriberTx(subs, pubkey, readOk) IN
    IF subscriber.kind # "subscriber"
    THEN [panic |-> TRUE, restored |-> FALSE, err |-> NoErr, subs |-> subs]
    ELSE IF IsZero(subscriber.UnsubscribedAt)
    THEN [panic |-> FALSE, restored |-> FALSE, err |-> NoErr, subs |-> subs]
    ELSE IF ~writeOk
    THEN [panic |-> FALSE, restored |-> FALSE, err |-> StoreError,
          subs |-> subs]
    ELSE [panic |-> FALSE, restored |-> TRUE, err |-> NoErr,
          subs |-> SetRestored(subs, pubkey, subscribedAt)]

\* Bot.GetOrCreateSubscription: ("", false, err) when CreateSubscriber fails.
GetOrCreateSubscriptionTx(subs, subscriberPub, channelSK, t, readOk, writeOk) ==
    LET subscriber == GetSubscriberTx(subs, subscriberPub, readOk) IN
    IF subscriber.kind = "panic"
    THEN [panic |-> TRUE, secret |-> "", isNew |-> FALSE, err |-> NoErr,
          subs |-> subs]
    ELSE IF subscriber.kind = "subscriber"
    THEN [panic |-> FALSE, secret |-> subscriber.ChannelSecret,
          isNew |-> FALSE, err |-> NoErr, subs |-> subs]
    ELSE LET c == CreateSubscriberTx(subs, subscriberPub, channelSK, t, writeOk)
         IN  IF c.err # NoErr
             THEN [panic |-> FALSE, secret |-> "", isNew |-> FALSE,
                   err |-> c.err, subs |-> c.subs]
             ELSE [panic |-> FALSE, secret |-> channelSK, isNew |-> TRUE,
                   err |-> NoErr, subs |-> c.subs]

(***************************************************************************)
(* The consumer of the mention stream (the goroutine of BotApplication.Run).*)
(***************************************************************************)
\* The contents of the mention events, and strings.Contains on them.
MentionContents == {"#subscribe", "#unsubscribe", "hello"}

Contains(s, substr) ==
    CASE s = "#subscribe" -> substr = "#subscribe"
      [] s = "#unsubscribe" -> substr = "#unsubscribe"
      [] OTHER -> FALSE

MentionEvent(pubkey, content) == [pubkey |-> pubkey, content |-> content]
MentionEvents == {MentionEvent(pk, c) : pk \in Pubkeys, c \in MentionContents}

\* Whether the store carries out each transaction of the handling of one
\* event, and whether the relays take the welcome message.
Outcomes ==
    [lookup : BOOLEAN, create : BOOLEAN, relookup : BOOLEAN,
     restore : BOOLEAN, delete : BOOLEAN, send : BOOLEAN]

Handled(subs, panic, getErr, isNew, restored, err, welcome, delivered) ==
    [subs |-> subs, panic |-> panic, getErr |-> getErr, isNew |-> isNew,
     restored |-> restored, err |-> err, welcome |-> welcome,
     delivered |-> delivered]

\* The body of the loop for one event ev: what it leaves in the store, whether
\* it panics, what GetOrCreateSubscription and RestoreSubscription returned,
\* whether SendWelcomeMessage was called and whether it returned nil.
HandleMention(subs, ev, channelSK, t, ok) ==
    IF Contains(ev.content, "#subscribe")
    THEN
      LET r == GetOrCreateSubscriptionTx(subs, ev.pubkey, channelSK, t,
                                         ok.lookup, ok.create)
      IN  IF r.panic
          THEN Handled(subs, TRUE, NoErr, FALSE, FALSE, NoErr, FALSE, FALSE)
          ELSE IF r.err # NoErr
          THEN Handled(r.subs, FALSE, r.err, FALSE, FALSE, NoErr, FALSE, FALSE)
          ELSE IF r.isNew
          THEN Handled(r.subs, FALSE, NoErr, TRUE, FALSE, NoErr, TRUE, ok.send)
          ELSE
            LET q == RestoreSubscriberTx(r.subs, ev.pubkey, t,
                                         ok.relookup, ok.restore)
            IN  IF q.panic
                THEN Handled(r.subs, TRUE, NoErr, FALSE, FALSE, NoErr,
                             FALSE, FALSE)
                ELSE Handled(q.subs, FALSE, NoErr, FALSE, q.restored, q.err,
                             q.restored, q.restored /\ ok.send)
    ELSE IF Contains(ev.content, "#unsubscribe")
    THEN
      LET d == DeleteSubscriberTx(subs, ev.pubkey, t, ok.delete)
      IN  Handled(d.subs, FALSE, NoErr, FALSE, FALSE, d.err, FALSE, FALSE)
    ELSE Handled(subs, FALSE, NoErr, FALSE, FALSE, NoErr, FALSE, FALSE)

(***************************************************************************)
(* robfig/cron as BotApplication.Run uses it: cron.New makes a scheduler    *)
(* that is not running, AddFunc adds an entry to it, and the entries of a   *)
(* scheduler are run on their schedule once it has been started with Start  *)
(* or Run. BotApplication.Run calls New, AddFunc and, on its way out, Stop. *)
(***************************************************************************)
\* no scheduler: BotApplication.Run has not been called
NoCron == [made |-> FALSE, entries |-> 0, running |-> FALSE]

\* cron.New()
CronNew == [made |-> TRUE, entries |-> 0, running |-> FALSE]

\* cr.AddFunc("0 * * * *", func)
CronAddFunc(c) == [c EXCEPT !.entries = @ + 1]

\* The number of jobs the scheduler c launches when minute 0 of an hour comes.
CronFires(c) == IF c.running THEN c.entries ELSE 0

GraphSize(g) ==
    Cardinality(g.posts) + Cardinality(g.reply) + Cardinality(g.like)
    + Cardinality(g.zap) + Cardinality(g.follow)

NoRet == [op |-> "none"]

Init ==
    /\ graph = EmptyGraph
    /\ ret = NoRet
    /\ subscribers = {}
    /\ now = 0
    /\ crashed = FALSE
    /\ procs = <<>>
    /\ stream = <<>>
    /\ published = 0
    /\ cr = NoCron
    /\ ticks = 0
    /\ batches = 0

StoreEventCall(event) ==
    /\ LET r == StoreEvent(graph, event) IN
       /\ graph' = r.g
       /\ ret' = [op |-> "StoreEvent", err |-> r.err]
    /\ UNCHANGED <<subscribers, now, crashed, procs, botVars>>

StoreEventAct ==
    /\ GraphSize(graph) < MaxGraphSize
    /\ \E event \in Events : StoreEventCall(event)

StoreFeedEventAct ==
    /\ Cardinality(graph.posts) < MaxFeedPosts
    /\ \E event \in FeedEvents : StoreEventCall(event)

\* The windows GetFeed is called with: created_at runs over 1..3.
Starts == {0, 1}
Ends == {3, 4}

\* The call is recorded with every result the store may answer it with (they
\* differ in the order of rows of equal score).
GetFeedAct ==
    \E start \in Starts, end \in Ends, limit \in 0..MaxLimit :
        /\ ret' = [op |-> "GetFeed", start |-> start, end |-> end,
                   limit |-> limit,
                   feeds |-> GetFeed(graph, start, end, limit)]
        /\ UNCHANGED <<graph, subscribers, now, crashed, procs, botVars>>

\* time.Now().Unix() as a call reads it: the clock has not moved since the
\* last call, or has moved on by a second.
Clock == {t \in {now, now + 1} : t <= MaxTime}

GetOrCreateSubscriptionAct ==
    /\ ~crashed
    /\ \E pubkey \in Pubkeys, channelSK \in Secrets, t \in Clock :
        LET r == GetOrCreateSubscription(subscribers, pubkey, channelSK, t) IN
        /\ subscribers' = r.subs
        /\ crashed' = r.panic
        /\ now' = t
        /\ ret' = [op |-> "GetOrCreateSubscription", pubkey |-> pubkey,
                   panic |-> r.panic, secret |-> r.secret, isNew |-> r.isNew,
                   err |-> r.err]
    /\ UNCHANGED <<graph, procs, botVars>>

TerminateSubscriptionAct ==
    /\ ~crashed
    /\ \E pubkey \in Pubkeys, t \in Clock :
        /\ subscribers' = DeleteSubscriber(subscribers, pubkey, t)
        /\ now' = t
        /\ ret' = [op |-> "TerminateSubscription", pubkey |-> pubkey,
                   panic |-> FALSE, err |-> NoErr]
    /\ UNCHANGED <<graph, crashed, procs, botVars>>

RestoreSubscriptionAct ==
    /\ ~crashed
    /\ \E pubkey \in Pubkeys, t \in Clock :
        LET r == RestoreSubscriber(subscribers, pubkey, t) IN
        /\ subscribers' = r.subs
        /\ crashed' = r.panic
        /\ now' = t
        /\ ret' = [op |-> "RestoreSubscription", pubkey |-> pubkey,
                   panic |-> r.panic, restored |-> r.restored, err |-> r.err]
    /\ UNCHANGED <<graph, procs, botVars>>

(***************************************************************************)
(* Concurrent callers of GetOrCreateSubscription. Each transaction is a   *)
(* step; the MERGE of CreateSubscriber is two, its match and its creation: *)
(* without a uniqueness constraint on Subscriber the store takes no lock   *)
(* between them. The calls run within one second of the clock.             *)
(***************************************************************************)
Procs == {1, 2}

Idle == [pc |-> "idle", pubkey |-> "", channelSK |-> "", secret |-> "",
         isNew |-> FALSE]

ConcInit ==
    /\ graph = EmptyGraph
    /\ ret = NoRet
    /\ subscribers = {}
    /\ now = 0
    /\ crashed = FALSE
    /\ procs = [p \in Procs |-> Idle]
    /\ stream = <<>>
    /\ published = 0
    /\ cr = NoCron
    /\ ticks = 0
    /\ batches = 0

\* the call is made
CallGetOrCreate(p) ==
    /\ ~crashed
    /\ procs[p].pc = "idle"
    /\ \E pubkey \in Pubkeys :
        procs' = [procs EXCEPT ![p] = [@ EXCEPT !.pc = "GetSubscriber",
                                                 !.pubkey = pubkey]]
    /\ UNCHANGED <<graph, ret, subscribers, now, crashed, botVars>>

\* b.service.GetSubscriber, then the return of the record found or
\* nostr.GeneratePrivateKey
LookupSubscriber(p) ==
    /\ ~crashed
    /\ procs[p].pc = "GetSubscriber"
    /\ LET subscriber == GetSubscriber(subscribers, procs[p].pubkey) IN
       \/ /\ subscriber.kind = "panic"
          /\ crashed' = TRUE
          /\ procs' = [procs EXCEPT ![p] = [@ EXCEPT !.pc = "panic"]]
       \/ /\ subscriber.kind = "subscriber"
          /\ crashed' = crashed
          /\ procs' = [procs EXCEPT ![p] =
                          [@ EXCEPT !.pc = "done",
                                    !.secret = subscriber.ChannelSecret,
                                    !.isNew = FALSE]]
       \/ /\ subscriber.kind = "nil"
          /\ crashed' = crashed
          /\ \E channelSK \in Secrets :
                procs' = [procs EXCEPT ![p] =
                             [@ EXCEPT !.pc = "CreateSubscriber",
                                       !.channelSK = channelSK]]
    /\ UNCHANGED <<graph, ret, subscribers, now, botVars>>

\* CreateSubscriber: the match of the MERGE; when it matches, nothing is set
\* and the call returns (channelSK, true, nil)
MergeMatchStep(p) ==
    /\ ~crashed
    /\ procs[p].pc = "CreateSubscriber"
    /\ procs' = [procs EXCEPT ![p] =
                    IF MergeMatches(subscribers, procs[p].pubkey)
                    THEN [@ EXCEPT !.pc = "done", !.secret = procs[p].channelSK,
                                   !.isNew = TRUE]
                    ELSE [@ EXCEPT !.pc = "MergeCreate"]]
    /\ UNCHANGED <<graph, ret, subscribers, now, crashed, botVars>>

\* CreateSubscriber: the creation of the MERGE, and the return
MergeCreateStep(p) ==
    /\ ~crashed
    /\ procs[p].pc = "MergeCreate"
    /\ subscribers' = MergeCreates(subscribers, procs[p].pubkey,
                                   procs[p].channelSK, now)
    /\ procs' = [procs EXCEPT ![p] =
                    [@ EXCEPT !.pc = "done", !.secret = procs[p].channelSK,
                              !.isNew = TRUE]]
    /\ UNCHANGED <<graph, ret, now, crashed, botVars>>

(***************************************************************************)
(* The subscriber operations against a store that may fail a transaction.   *)
(***************************************************************************)
GetOrCreateSubscriptionTxAct ==
    /\ ~crashed
    /\ \E pubkey \in Pubkeys, channelSK \in Secrets, t \in Clock,
          readOk \in BOOLEAN, writeOk \in BOOLEAN :
        LET r == GetOrCreateSubscriptionTx(subscribers, pubkey, channelSK, t,
                                           readOk, writeOk) IN
        /\ subscribers' = r.subs
        /\ crashed' = r.panic
        /\ now' = t
        /\ ret' = [op |-> "GetOrCreateSubscription", pubkey |-> pubkey,
                   panic |-> r.panic, secret |-> r.secret, isNew |-> r.isNew,
                   err |-> r.err]
    /\ UNCHANGED <<graph, procs, botVars>>

TerminateSubscriptionTxAct ==
    /\ ~crashed
    /\ \E pubkey \in Pubkeys, t \in Clock, writeOk \in BOOLEAN :
        LET d == DeleteSubscriberTx(subscribers, pubkey, t, writeOk) IN
        /\ subscribers' = d.subs
        /\ now' = t
        /\ ret' = [op |-> "TerminateSubscription", pubkey |-> pubkey,
                   panic |-> FALSE, err |-> d.err]
    /\ UNCHANGED <<graph, crashed, procs, botVars>>

RestoreSubscriptionTxAct ==
    /\ ~crashed
    /\ \E pubkey \in Pubkeys, t \in Clock, readOk \in BOOLEAN,
          writeOk \in BOOLEAN :
        LET r == RestoreSubscriberTx(subscribers, pubkey, t, readOk, writeOk) IN
        /\ subscribers' = r.subs
        /\ crashed' = r.panic
        /\ now' = t
        /\ ret' = [op |-> "RestoreSubscription", pubkey |-> pubkey,
                   panic |-> r.panic, restored |-> r.restored, err |-> r.err]
    /\ UNCHANGED <<graph, procs, botVars>>

(***************************************************************************)
(* BotApplication.Run. The handling of an event is one step: the consumer   *)
(* is the only writer of Subscribers while it runs. The events are handled  *)
(* within one second of the clock.                                          *)
(***************************************************************************)
\* Run is called: the stream is subscribed to, the consumer goroutine is
\* started, the scheduler is made and given the hourly job; Run then waits for
\* the consumer to end.
Run ==
    /\ ~cr.made
    /\ cr' = CronAddFunc(CronNew)
    /\ UNCHANGED <<graph, ret, subscribers, now, crashed, procs, stream,
                   published, ticks, batches>>

\* someone publishes an event that mentions the bot
Publish ==
    /\ cr.made
    /\ published < MaxStream
    /\ \E ev \in MentionEvents : stream' = Append(stream, ev)
    /\ published' = published + 1
    /\ UNCHANGED <<graph, ret, subscribers, now, crashed, procs, cr, ticks,
                   batches>>

\* the consumer receives the next event and runs the body of its loop; a
\* panic in it ends the process
Consume ==
    /\ cr.made
    /\ ~crashed
    /\ stream # <<>>
    /\ \E channelSK \in Secrets, ok \in Outcomes :
        LET ev == Head(stream)
            h == HandleMention(subscribers, ev, channelSK, now, ok)
        IN  /\ subscribers' = h.subs
            /\ crashed' = h.panic
            /\ ret' = [op |-> "Mention", pubkey |-> ev.pubkey,
                       content |-> ev.content, panic |-> h.panic,
                       getErr |-> h.getErr, isNew |-> h.isNew,
                       restored |-> h.restored, err |-> h.err,
                       welcome |-> h.welcome, delivered |-> h.delivered]
    /\ stream' = Tail(stream)
    /\ UNCHANGED <<graph, now, procs, published, cr, ticks, batches>>

\* minute 0 of an hour comes: the scheduler, if the process lives, launches
\* the jobs it fires, each a run of Worker.Batch in a goroutine of its own
HourTick ==
    /\ cr.made
    /\ ticks < MaxTicks
    /\ ticks' = ticks + 1
    /\ batches' = batches + (IF crashed THEN 0 ELSE CronFires(cr))
    /\ UNCHANGED <<graph, ret, subscribers, now, crashed, procs, stream,
                   published, cr>>

Next == StoreEventAct

Spec == Init /\ [][Next]_vars

FeedNext == StoreFeedEventAct \/ GetFeedAct

FeedSpec == Init /\ [][FeedNext]_vars

SubNext ==
    GetOrCreateSubscriptionAct \/ TerminateSubscriptionAct
    \/ RestoreSubscriptionAct

SubSpec == Init /\ [][SubNext]_vars

ConcNext ==
    \E p \in Procs :
        CallGetOrCreate(p) \/ LookupSubscriber(p) \/ MergeMatchStep(p)
        \/ MergeCreateStep(p)

ConcSpec == ConcInit /\ [][ConcNext]_vars

SubTxNext ==
    GetOrCreateSubscriptionTxAct \/ TerminateSubscriptionTxAct
    \/ RestoreSubscriptionTxAct

SubTxSpec == Init /\ [][SubTxNext]_vars

DispatchNext == Run \/ Publish \/ Consume \/ HourTick

DispatchSpec == Init /\ [][DispatchNext]_vars

\* The consumer goroutine is scheduled while it can take a step, and time
\* passes.
DispatchLiveSpec ==
    DispatchSpec /\ WF_vars(Consume) /\ WF_vars(HourTick)

(***************************************************************************)
(* The claims.                                                             *)
(***************************************************************************)
\* the last call was op(pubkey)
Called(op, pubkey) == ret.op = op /\ ret.pubkey = pubkey

NotFound == "NotFound"

\* C1: for an identity X without a Subscriber record, GetOrCreateSubscription(X)
\* returns isNew = true and persists one Subscriber (subscribed_at set,
\* unsubscribed_at null); the same call made again right after it completes
\* normally, returns the same channel secret with isNew = false, and one
\* Subscriber record of X exists.
C1_GetOrCreateTwice ==
    [][\A x \in Pubkeys :
        /\ (Matching(subscribers, x) = {}
            /\ Called("GetOrCreateSubscription", x)')
           => /\ ~ret'.panic /\ ret'.isNew
              /\ Cardinality(Matching(subscribers', x)) = 1
              /\ \A s \in Matching(subscribers', x) :
                    /\ s.channel_secret = ret'.secret
                    /\ s.subscribed_at = now'
                    /\ s.unsubscribed_at = {}
        /\ (Called("GetOrCreateSubscription", x) /\ ret.isNew
            /\ Called("GetOrCreateSubscription", x)')
           => /\ ~ret'.panic /\ ~ret'.isNew
              /\ ret'.secret = ret.secret
              /\ Cardinality(Matching(subscribers', x)) = 1]_vars

\* C2: for a subscribed identity, Restore right after Terminate returns
\* (true, nil) and leaves the subscriber active, subscribed_at refreshed; a
\* second Restore right after it returns (false, nil) and changes no
\* subscriber field.
C2_TerminateRestoreRestore ==
    [][\A x \in Pubkeys :
        /\ (Called("TerminateSubscription", x) /\ Matching(subscribers, x) # {}
            /\ Called("RestoreSubscription", x)')
           => /\ ~ret'.panic /\ ret'.restored /\ ret'.err = NoErr
              /\ \A s \in Matching(subscribers', x) :
                    s.unsubscribed_at = {} /\ s.subscribed_at = now'
        /\ (Called("RestoreSubscription", x) /\ ret.restored
            /\ Called("RestoreSubscription", x)')
           => /\ ~ret'.panic /\ ~ret'.restored /\ ret'.err = NoErr
              /\ subscribers' = subscribers]_vars

\* C3: Restore of an identity without a Subscriber record returns a NotFound
\* error, does not crash the caller and leaves the store as it was.
C3_RestoreNotFound ==
    [][\A x \in Pubkeys :
        (Matching(subscribers, x) = {} /\ Called("RestoreSubscription", x)')
        => /\ ~ret'.panic /\ ~crashed'
           /\ ret'.err = NotFound /\ ~ret'.restored
           /\ subscribers' = subscribers]_vars

\* C4: whatever the interleaving of two first calls of GetOrCreateSubscription
\* for one identity, at most one Subscriber record of it is created, at most
\* one caller gets isNew = true, and a channel secret returned to a caller is
\* the one the store holds.
C4_ConcurrentFirstCalls ==
    \A x \in Pubkeys :
        LET done == {p \in Procs : procs[p].pc = "done" /\ procs[p].pubkey = x}
        IN  /\ Cardinality(Matching(subscribers, x)) <= 1
            /\ Cardinality({p \in done : procs[p].isNew}) <= 1
            /\ \A p \in done : \A s \in Matching(subscribers, x) :
                  procs[p].secret = s.channel_secret

\* C5: for every supported event e and every reachable graph, StoreEvent(e)
\* applied twice in a row leaves the graph that applying it once leaves.
C5_StoreEventIdempotent ==
    \A e \in Events :
        LET once == StoreEvent(graph, e) IN
        StoreEvent(once.g, e).g = once.g

\* a graph that holds what a reply and a follow list bring, and that the
\* events that bring them leave as it is.
C5_Witness ==
    /\ ret.op = "StoreEvent" /\ ret.err = NoErr
    /\ \E e \in NoteEvents :
        /\ e.kind = 1 /\ Len(e.etags) > 0 /\ e.etags[1] # e.id
        /\ <<e.id, e.etags[1]>> \in graph.reply
        /\ StoreEvent(graph, e).g = graph
    /\ \E e \in ContactEvents :
        /\ e.ptags # <<>> /\ <<e.pubkey, e.ptags[1]>> \in graph.follow
        /\ StoreEvent(graph, e).g = graph

FollowsOf(g, pubkey) == {f \in g.follow : f[1] = pubkey}
FollowsOfOthers(g, pubkey) == {f \in g.follow : f[1] # pubkey}
Referenced(e) == {e.ptags[i] : i \in 1..Len(e.ptags)}

\* C6: after two successive follow lists of one author, the FOLLOW
\* relationships that leave the author are those to the identities of the
\* second list, and those of the other authors are as they were.
C6_FollowListReplaced ==
    \A e1, e2 \in ContactEvents :
        e1.pubkey = e2.pubkey =>
            LET g2 == StoreEvent(StoreEvent(graph, e1).g, e2).g IN
            /\ FollowsOf(g2, e2.pubkey)
                 = {<<e2.pubkey, q>> : q \in Referenced(e2)}
            /\ FollowsOfOthers(g2, e2.pubkey)
                 = FollowsOfOthers(graph, e2.pubkey)

\* no Post, both identities are User nodes, and the only FOLLOW relationship
\* is from "a" to itself: "b" came with a follow list that was replaced.
C6_Witness ==
    /\ ret.op = "StoreEvent"
    /\ graph.posts = {}
    /\ graph.users = {"a", "b"}
    /\ graph.follow = {<<"a", "a">>}

\* a statement of the event's transaction fails: the MERGE of the Post meets
\* another Post of the id
PostConflict(g, e) ==
    /\ \/ e.kind \in {1, 7}
       \/ e.kind = 9735 /\ e.bolt11.valid /\ Len(e.etags) > 0
    /\ \E p \in g.posts : p.id = e.id /\ p # PostNode(e)

\* C7: when a statement of the transaction of a StoreEvent call fails, the
\* error is returned and the graph is what it was before the call.
C7_StoreEventAtomic ==
    \A e \in Events :
        LET r == StoreEvent(graph, e) IN
        /\ PostConflict(graph, e) => r.err = ConstraintError
        /\ r.err # NoErr => r.g = graph

\* a call failed on the constraint, and there is an event that fails on it
\* whose author has no User node yet
C7_Witness ==
    /\ ret.op = "StoreEvent" /\ ret.err = ConstraintError
    /\ \E e \in Events : PostConflict(graph, e) /\ e.pubkey \notin graph.users

\* the authors of the Posts with a relationship of rels into the Post id
InteractingAuthors(g, rels, id) ==
    {q.author : q \in {q \in g.posts : \E e \in rels : e[1] = q.id /\ e[2] = id}}

ClaimedScore(g, id) ==
    15 * Cardinality(InteractingAuthors(g, g.reply, id))
    + 10 * Cardinality(InteractingAuthors(g, g.like, id))
    + 50 * Cardinality(InteractingAuthors(g, g.zap, id))

\* C8: the score of an item GetFeed returns is 15 times the number of
\* distinct authors of the items that reply to it, plus 10 times that of the
\* items that like it, plus 50 times that of the items that zap it.
C8_ScoreCountsDistinctAuthors ==
    ret.op = "GetFeed" =>
        \A feed \in ret.feeds : \A i \in 1..Len(feed) :
            feed[i].Score = ClaimedScore(graph, feed[i].Id)

\* an item is returned that two items of one author reply to and that an
\* item likes
C8_Witness ==
    /\ ret.op = "GetFeed"
    /\ \E feed \in ret.feeds : \E i \in 1..Len(feed) :
        /\ \E r1, r2 \in graph.reply :
              /\ r1 # r2 /\ r1[2] = feed[i].Id /\ r2[2] = feed[i].Id
              /\ PostById(graph, r1[1]).author = PostById(graph, r2[1]).author
        /\ \E l \in graph.like : l[2] = feed[i].Id
        /\ feed[i].Score = 25

\* an item with two reply authors, one like author and no zap
TwoRepliesOneLike(g, id) ==
    /\ Cardinality(InteractingAuthors(g, g.reply, id)) = 2
    /\ Cardinality(InteractingAuthors(g, g.like, id)) = 1
    /\ InteractingAuthors(g, g.zap, id) = {}

\* C9 as stated: such an item is returned with score 30 and before an item
\* of score 29.
C9_ScoreThirty ==
    ret.op = "GetFeed" =>
        \A feed \in ret.feeds : \A i \in 1..Len(feed) :
            TwoRepliesOneLike(graph, feed[i].Id) =>
                /\ feed[i].Score = 30
                /\ \A j \in 1..Len(feed) : feed[j].Score = 29 => i < j

\* C9, amended: such an item is returned with score 40 (2 * 15 + 10) and
\* before every item of a smaller score.
C9_ScoreForty ==
    ret.op = "GetFeed" =>
        \A feed \in ret.feeds : \A i \in 1..Len(feed) :
            TwoRepliesOneLike(graph, feed[i].Id) =>
                /\ feed[i].Score = 40
                /\ \A j \in 1..Len(feed) : feed[j].Score < 40 => i < j

\* such an item is returned, first, with an item of a smaller score after it
C9_Witness ==
    /\ ret.op = "GetFeed"
    /\ \E feed \in ret.feeds :
        /\ Len(feed) = 2
        /\ TwoRepliesOneLike(graph, feed[1].Id)
        /\ feed[2].Score < feed[1].Score

Matched(g, start, end) ==
    {p \in g.posts : start < p.created_at /\ p.created_at < end}

Min(a, b) == IF a <= b THEN a ELSE b

\* C10: GetFeed(start, end, limit) returns its items by score, greatest
\* first, as many as min(limit, number of items of the window), and no item
\* of the window left out has a greater score than one returned.
C10_SortedAndTruncated ==
    ret.op = "GetFeed" =>
        LET matched == Matched(graph, ret.start, ret.end) IN
        \A feed \in ret.feeds :
            /\ \A i, j \in 1..Len(feed) : i < j => feed[i].Score >= feed[j].Score
            /\ Len(feed) = Min(ret.limit, Cardinality(matched))
            /\ \A p \in matched :
                  (\A i \in 1..Len(feed) : feed[i].Id # p.id)
                  => \A i \in 1..Len(feed) :
                        ClaimedScore(graph, p.id) <= feed[i].Score

\* a result cut to the limit, of two items of different scores, that leaves
\* out an item of the window
C10_Witness ==
    /\ ret.op = "GetFeed"
    /\ ret.limit < Cardinality(Matched(graph, ret.start, ret.end))
    /\ \E feed \in ret.feeds :
        Len(feed) = 2 /\ feed[1].Score > feed[2].Score /\ feed[2].Score > 0

\* C11: every item GetFeed(start, end, limit) returns has
\* start < created_at < end; an item created at start or at end is in no
\* result, whatever its score.
C11_WindowExclusive ==
    ret.op = "GetFeed" =>
        \A feed \in ret.feeds :
            /\ \A i \in 1..Len(feed) :
                  ret.start < feed[i].CreatedAt /\ feed[i].CreatedAt < ret.end
            /\ \A p \in graph.posts :
                  p.created_at \in {ret.start, ret.end}
                  => \A i \in 1..Len(feed) : feed[i].Id # p.id

\* the window is 1 < created_at < 3; an item created at 1 that has a reply and
\* an item created at 3 are stored, neither is returned, and the result, an
\* item of score 0, is shorter than the limit
C11_Witness ==
    /\ ret.op = "GetFeed" /\ ret.start = 1 /\ ret.end = 3
    /\ \E p \in graph.posts :
          p.created_at = 1 /\ ClaimedScore(graph, p.id) > 0
    /\ \E p \in graph.posts : p.created_at = 3
    /\ \E feed \in ret.feeds :
          /\ Len(feed) = 1 /\ ret.limit = 2
          /\ feed[1].CreatedAt = 2 /\ feed[1].Score = 0

\* the zap receipts of the claim: the invoice decodes, no "e" tag
UntargetedZaps == {e \in ZapEvents : e.bolt11.valid /\ e.etags = <<>>}

\* C15: StoreEvent of a kind-9735 event with a decodable invoice and no "e"
\* tag returns no error and leaves the graph as it was: no User, no Post, no
\* CREATE and no ZAP relationship is added.
C15_UntargetedZapIgnored ==
    \A e \in UntargetedZaps :
        LET r == StoreEvent(graph, e) IN
        /\ r.err = NoErr
        /\ r.g = graph
        /\ r.g.users = graph.users /\ r.g.posts = graph.posts
        /\ r.g.create = graph.create /\ r.g.zap = graph.zap

\* a graph with a ZAP relationship, brought by a receipt with an "e" tag, in
\* which the author and the id of a receipt without one are unknown: with the
\* tag the receipt would add a User and a Post, without it it adds nothing
C15_Witness ==
    /\ ret.op = "StoreEvent" /\ ret.err = NoErr
    /\ graph.zap # {}
    /\ \E e \in UntargetedZaps :
        /\ e.pubkey \notin graph.users
        /\ \A p \in graph.posts : p.id # e.id
        /\ StoreEvent(graph, e) = Ok(graph)
        /\ StoreEvent(graph, [e EXCEPT !.etags = <<e.id>>]).g # graph

\* the zap receipts that name an item: the invoice decodes, an "e" tag
TargetedZaps == {e \in ZapEvents : e.bolt11.valid /\ e.etags # <<>>}

\* q is m integer-divided by 1000
IsFloorOfThousandth(q, m) == q * 1000 <= m /\ m < (q + 1) * 1000

\* C18: the amount of the ZAP relationship a zap receipt brings is its
\* invoice's millisatoshi amount integer-divided by 1000: 3 for an invoice of
\* 3000, and m div 1000 for one of m; every ZAP relationship stored has such
\* an amount.
C18_ZapAmountFloor ==
    /\ \A e \in TargetedZaps :
          LET r == StoreEvent(graph, e)
              added == {z \in r.g.zap : z[1] = e.id /\ z[2] = e.etags[1]}
                       \ graph.zap
          IN  /\ \A z \in added :
                    /\ IsFloorOfThousandth(z[3], e.bolt11.msat)
                    /\ e.bolt11.msat = 3000 => z[3] = 3
              /\ (r.err = NoErr /\ BothPosts(r.g, e.id, e.etags[1]))
                 => \E z \in r.g.zap :
                       /\ z[1] = e.id /\ z[2] = e.etags[1]
                       /\ IsFloorOfThousandth(z[3], e.bolt11.msat)
    /\ \A z \in graph.zap :
          \E m \in MSatoshis : IsFloorOfThousandth(z[3], m)

\* two ZAP relationships are stored, of amount 3 (an invoice of 3000) and of
\* amount 1 (an invoice of 1999, rounded down)
C18_Witness ==
    /\ ret.op = "StoreEvent" /\ ret.err = NoErr
    /\ \E z \in graph.zap : z[3] = 3
    /\ \E z \in graph.zap : z[3] = 1

\* the pairs of the claim: R is a reply or a reaction whose first "e" tag names
\* the item of T, another event
OutOfOrderPairs ==
    {pair \in NoteEvents \X (NoteEvents \cup TargetedZaps) :
        /\ pair[1].etags # <<>>
        /\ pair[1].etags[1] = pair[2].id
        /\ pair[1].id # pair[2].id}

\* C19: for a reply or reaction R to the item of T, StoreEvent(R) then
\* StoreEvent(T) leave the graph that StoreEvent(T) then StoreEvent(R)
\* leave, and it holds the REPLY (LIKE) relationship from R's item to T's
\* whenever it holds both items.
C19_OutOfOrderDelivery ==
    \A pair \in OutOfOrderPairs :
        LET R == pair[1]
            T == pair[2]
            rt == StoreEvent(StoreEvent(graph, R).g, T).g
            tr == StoreEvent(StoreEvent(graph, T).g, R).g
            rel == IF R.kind = 1 THEN rt.reply ELSE rt.like
        IN  /\ rt = tr
            /\ BothPosts(rt, R.id, T.id) => <<R.id, T.id>> \in rel

\* the CREATE relationships into the Post id
CreatorsOf(g, id) == {c \in g.create : c[2] = id}

\* C16: in every graph a sequence of StoreEvent calls leaves, every Post has
\* one incoming CREATE relationship, from the User of its author; every
\* relationship ends in nodes of the graph; a User exists for every Post
\* author and for both ends of every FOLLOW relationship; and no two Posts
\* have one id.
C16_GraphInvariants ==
    /\ \A p \in graph.posts :
          /\ CreatorsOf(graph, p.id) = {<<p.author, p.id>>}
          /\ p.author \in graph.users
    /\ \A c \in graph.create :
          c[1] \in graph.users /\ \E p \in graph.posts : p.id = c[2]
    /\ \A f \in graph.follow : f[1] \in graph.users /\ f[2] \in graph.users
    /\ \A p, q \in graph.posts : p.id = q.id => p = q
    /\ Cardinality({p.id : p \in graph.posts}) = Cardinality(graph.posts)

\* two Posts of two authors, a FOLLOW relationship, and a call that has just
\* failed on the constraint: an event came with the id of a stored Post and
\* other properties
C16_Witness ==
    /\ ret.op = "StoreEvent" /\ ret.err = ConstraintError
    /\ \E p, q \in graph.posts : p.id # q.id /\ p.author # q.author
    /\ graph.follow # {}

\* C17: TerminateSubscription(x) returns no error and creates no record; it
\* leaves every Subscriber of x inactive (unsubscribed_at set) with its channel
\* secret and subscribed_at as they were, whether it was active or already
\* inactive; it leaves the other Subscribers, and a store without a record
\* of x, as they were.
C17_TerminateIdempotent ==
    [][\A x \in Pubkeys :
        Called("TerminateSubscription", x)'
        => /\ ~ret'.panic /\ ~crashed' /\ ret'.err = NoErr
           /\ Cardinality(subscribers') = Cardinality(subscribers)
           /\ \A s \in subscribers :
                 \E s2 \in subscribers' :
                    /\ s2.nid = s.nid /\ s2.pubkey = s.pubkey
                    /\ s2.channel_secret = s.channel_secret
                    /\ s2.subscribed_at = s.subscribed_at
                    /\ s.pubkey = x => s2.unsubscribed_at # {}
                    /\ s.pubkey # x => s2 = s
           /\ Matching(subscribers, x) = {} => subscribers' = subscribers]_vars

\* TerminateSubscription("a") has returned at second 2 in a store whose only
\* Subscriber is one of "a" subscribed at second 0, now inactive: the clock has
\* moved by two calls since, so the calls before this state include a
\* TerminateSubscription of "a" when it was inactive already, or one of "b",
\* which has no record
C17_Witness ==
    /\ Called("TerminateSubscription", "a") /\ ~crashed /\ now = 2
    /\ \E s \in subscribers :
        /\ subscribers = {s}
        /\ s.pubkey = "a" /\ s.subscribed_at = 0 /\ s.unsubscribed_at = {2}

\* a step of the consumer: it takes the head of the stream
Consumed == stream # <<>> /\ stream' = Tail(stream)

\* the subscriber store before the step holds an active Subscriber of x
ActiveBefore(x) == \E s \in Matching(subscribers, x) : s.unsubscribed_at = {}

\* the step creates the first Subscriber of x
CreatedInStep(x) ==
    Matching(subscribers, x) = {} /\ Matching(subscribers', x) # {}

\* the step takes a Subscriber of x from inactive to active
RestoredInStep(x) ==
    \E s \in Matching(subscribers, x) : \E s2 \in Matching(subscribers', x) :
        s2.nid = s.nid /\ s.unsubscribed_at # {} /\ s2.unsubscribed_at = {}

\* C12: when the consumer handles an event whose content contains #subscribe,
\* SendWelcomeMessage is called if and only if the handling created the
\* author's Subscriber or took it from inactive to active; when the author is
\* an active subscriber the event is skipped: no message, no change of the
\* Subscribers, and the consumer goes on.
C12_WelcomeIffNewOrRestored ==
    [][(Consumed /\ Contains(Head(stream).content, "#subscribe"))
       => LET x == Head(stream).pubkey IN
          /\ ret'.welcome <=> (CreatedInStep(x) \/ RestoredInStep(x))
          /\ ActiveBefore(x)
             => /\ ~ret'.welcome
                /\ subscribers' = subscribers
                /\ ~crashed']_vars

\* the events handled so far
HandledCount == published - Len(stream)

\* C13: every event published to the stream is received and handled in the
\* end, whatever happened in the handling of the events before it.
C13_CommandIsolation ==
    \A k \in 1..MaxStream : (published >= k) ~> (HandledCount >= k)

\* C14: every hour that strikes while Run is running is followed by a run of
\* Worker.Batch: after n hours, n runs have been launched in the end.
C14_HourlyBatch ==
    \A n \in 1..MaxTicks : (ticks >= n) ~> (batches >= n)

\* C20: no step of GetOrCreateSubscription, TerminateSubscription or
\* RestoreSubscription changes the channel secret of a stored Subscriber, and
\* a GetOrCreateSubscription(x) that returns without error returns the
\* channel secret the store holds for x.
C20_ChannelSecretStable ==
    [][/\ \A s \in subscribers : \E s2 \in subscribers' :
             s2.nid = s.nid /\ s2.pubkey = s.pubkey
             /\ s2.channel_secret = s.channel_secret
       /\ \A x \in Pubkeys :
            (Called("GetOrCreateSubscription", x)' /\ ~ret'.panic
             /\ ret'.err = NoErr)
            => /\ Matching(subscribers', x) # {}
               /\ \A s \in Matching(subscribers', x) :
                     s.channel_secret = ret'.secret]_vars
====
